---- MODULE Spec2Model ----
(***************************************************************************)
(* A model of the editorfirst type-level library.  Every exported symbol   *)
(* of the library is a TypeScript type alias: a pure function from type    *)
(* descriptors to a type descriptor, evaluated by the type checker.  The   *)
(* model represents descriptors as tagged records, evaluates each alias    *)
(* the way the checker does (distributive conditional types, homomorphic   *)
(* and plain mapped types, indexed access, intersections, assignability)   *)
(* and applies the aliases one at a time to a current descriptor `cur`,    *)
(* with `aux` as the second type argument (in the tagging steps: a second  *)
(* declared type).  `last` and `prev` record the two latest applications.  *)
(*                                                                         *)
(* Strings (field names, literal values, dot-paths) are sequences of       *)
(* one-character strings, so that a template-literal pattern can split     *)
(* them.  The checker options are the `strict` family: an optional field   *)
(* reads as `D | undefined`.                                               *)
(***************************************************************************)
EXTENDS Integers, Sequences, FiniteSets, TLC

VARIABLES cur, aux, last, prev

vars == <<cur, aux, last, prev>>

(***************************************************************************)
(* Descriptors                                                             *)
(***************************************************************************)
NeverT == [kind |-> "never"]

AnyT == [kind |-> "any"]

UnknownT == [kind |-> "unknown"]

Prim(n) == [kind |-> "prim", name |-> n]

Lit(b, v) == [kind |-> "lit", base |-> b, val |-> v]

Rec(f) == [kind |-> "record", fields |-> f]

Tup(e, r) == [kind |-> "tuple", elems |-> e, ro |-> r]

Fn(p, r) == [kind |-> "fn", params |-> p, ret |-> r]

Field(d, o, r) == [d |-> d, opt |-> o, ro |-> r]

String == Prim("string")

Number == Prim("number")

Symbol == Prim("symbol")

Undefined == Prim("undefined")

LitS(v) == Lit("string", v)

True == Lit("boolean", <<"true">>)

False == Lit("boolean", <<"false">>)

EmptyRec == Rec(<<>>)

\* The constituents of a descriptor seen as a union: never has none.
Members(d) ==
  IF d.kind = "never" THEN {}
  ELSE IF d.kind = "union" THEN d.members
  ELSE {d}

\* A union type: flattened, duplicates removed (a set), never dropped, any and
\* unknown absorbing, a literal absorbed by its own primitive.
UnionOf(S) ==
  LET flat == UNION {Members(m) : m \in S}
      red == {m \in flat : ~(m.kind = "lit" /\ Prim(m.base) \in flat)}
  IN IF AnyT \in flat THEN AnyT
     ELSE IF UnknownT \in flat THEN UnknownT
     ELSE IF red = {} THEN NeverT
     ELSE IF Cardinality(red) = 1 THEN CHOOSE m \in red : TRUE
     ELSE [kind |-> "union", members |-> red]

Boolean == UnionOf({True, False})

\* The type a field reads as: an optional field also admits undefined.
EffType(f) == IF f.opt THEN UnionOf({f.d, Undefined}) ELSE f.d

FieldNames(r) == DOMAIN r.fields

IsWeak(r) == FieldNames(r) # {} /\ \A n \in FieldNames(r) : r.fields[n].opt

(***************************************************************************)
(* Assignability: `S extends T`                                            *)
(***************************************************************************)
RECURSIVE Extends(_, _)
Extends(S, T) ==
  IF S.kind = "never" THEN TRUE
  ELSE IF S.kind = "union" THEN \A m \in S.members : Extends(m, T)
  ELSE IF S.kind = "any" THEN T.kind # "never"
  ELSE IF T.kind \in {"any", "unknown"} THEN TRUE
  ELSE IF T.kind = "never" THEN FALSE
  ELSE IF T.kind = "union" THEN \E m \in T.members : Extends(S, m)
  ELSE IF T.kind = "inter" THEN Extends(S, T.base) /\ Extends(S, T.obj)
  ELSE IF S.kind = "unknown" THEN FALSE
  ELSE IF S.kind = "inter" THEN Extends(S.base, T) \/ Extends(S.obj, T)
  ELSE IF S.kind = "lit"
    THEN \/ T = S
         \/ T.kind = "prim" /\ T.name = S.base
         \/ T.kind = "record" /\ FieldNames(T) = {}
  ELSE IF S.kind = "prim"
    THEN \/ T = S
         \/ /\ T.kind = "record" /\ FieldNames(T) = {}
            /\ S.name \notin {"undefined", "null"}
  ELSE IF S.kind = "record"
    THEN /\ T.kind = "record"
         /\ \A n \in FieldNames(T) :
              IF n \in FieldNames(S)
                THEN /\ Extends(EffType(S.fields[n]), EffType(T.fields[n]))
                     /\ (S.fields[n].opt => T.fields[n].opt)
                ELSE T.fields[n].opt
         /\ (IsWeak(T) /\ FieldNames(S) # {}
               => FieldNames(S) \cap FieldNames(T) # {})
  ELSE IF S.kind = "tuple"
    THEN \/ /\ T.kind = "tuple"
            /\ Len(S.elems) = Len(T.elems)
            /\ (S.ro => T.ro)
            /\ \A i \in 1..Len(S.elems) : Extends(S.elems[i], T.elems[i])
         \/ T.kind = "record" /\ FieldNames(T) = {}
  ELSE IF S.kind = "fn"
    THEN \/ /\ T.kind = "fn"
            /\ Len(S.params) <= Len(T.params)
            /\ \A i \in 1..Len(S.params) : Extends(T.params[i], S.params[i])
            /\ Extends(S.ret, T.ret)
         \/ T.kind = "record" /\ FieldNames(T) = {}
  ELSE FALSE

\* The lib alias Exclude<T, U> = T extends U ? never : T.  The conditional type
\* is distributive: it is applied to the constituents of T one at a time and
\* the results are united (so on never it is never).
Exclude(T, U) ==
  UnionOf({IF Extends(m, U) THEN NeverT ELSE m : m \in Members(T)})

(***************************************************************************)
(* Object types: keyof, indexed access, intersection, mapped types         *)
(***************************************************************************)
\* keyof never and keyof any are every property key.
PropertyKey == UnionOf({String, Number, Symbol})

\* The member `length` that a string borrows from its wrapper object.
LengthName == <<"l", "e", "n", "g", "t", "h">>

\* string and its literals.
IsStringLike(T) ==
  \/ T.kind = "prim" /\ T.name = "string"
  \/ T.kind = "lit" /\ T.base = "string"

\* keyof of one constituent.  Of the members a primitive borrows from its
\* wrapper object, `length` of a string stands for all; the others ("at",
\* "toFixed", "0", ...) are not names of the model's alphabet, so they are
\* left out, as are those of tuples and functions.
KeyOfOne(T) ==
  IF T.kind = "record" THEN UnionOf({LitS(n) : n \in FieldNames(T)})
  ELSE IF IsStringLike(T) THEN LitS(LengthName)
  ELSE IF T.kind = "inter" THEN UnionOf({LitS(n) : n \in FieldNames(T.obj)})
  ELSE IF T.kind \in {"never", "any"} THEN PropertyKey
  ELSE NeverT

\* keyof T; of a union it is the keys every constituent has.
KeyOf(T) ==
  IF T.kind = "union"
    THEN LET ks == {KeyOfOne(m) : m \in T.members}
         IN UnionOf({k \in UNION {Members(x) : x \in ks} :
                       \A x \in ks : Extends(k, x)})
    ELSE KeyOfOne(T)

\* The field names a key type lists (its string-literal constituents).
KeyNames(K) == {m.val : m \in {x \in Members(K) : x.kind = "lit"}}

\* T[P] for the key named n.
IndexOne(T, n) ==
  IF T.kind = "record" /\ n \in FieldNames(T) THEN EffType(T.fields[n])
  ELSE IF T.kind = "inter" /\ n \in FieldNames(T.obj) THEN EffType(T.obj.fields[n])
  ELSE IF T.kind = "never" THEN NeverT
  ELSE IF IsStringLike(T) /\ n = LengthName THEN Number
  ELSE AnyT

IndexAccess(T, n) == UnionOf({IndexOne(m, n) : m \in Members(T)})

StripUndefined(d) == UnionOf(Members(d) \ {Undefined})

\* A mapped type { [P in K]: ... } whose key type is not `keyof T` nor a type
\* parameter constrained by it: every field is required and writable.  The
\* function tmpl gives the template type of every key name.
MappedPlain(tmpl) ==
  Rec([n \in DOMAIN tmpl |-> Field(tmpl[n], FALSE, FALSE)])

\* A homomorphic mapped type { [P in K]: ... }, K extends keyof T: every field
\* keeps the optional and readonly modifiers it has in T.
MappedHomomorphic(T, tmpl) ==
  Rec([n \in DOMAIN tmpl |->
        IF T.kind = "record" /\ n \in FieldNames(T)
          THEN Field(IF T.fields[n].opt THEN StripUndefined(tmpl[n]) ELSE tmpl[n],
                     T.fields[n].opt, T.fields[n].ro)
        ELSE IF IsStringLike(T) /\ n = LengthName
          THEN Field(tmpl[n], FALSE, TRUE)
          ELSE Field(tmpl[n], FALSE, FALSE)])

\* Two unit types with no common value.
Disjoint(a, b) == a.kind = "lit" /\ b.kind = "lit" /\ a # b

RECURSIVE Intersect(_, _)
\* A & B.
Intersect(A, B) ==
  IF A.kind = "never" \/ B.kind = "never" THEN NeverT
  ELSE IF A.kind = "any" \/ B.kind = "any" THEN AnyT
  ELSE IF A.kind = "unknown" THEN B
  ELSE IF B.kind = "unknown" THEN A
  ELSE IF A.kind = "union" THEN UnionOf({Intersect(m, B) : m \in A.members})
  ELSE IF B.kind = "union" THEN UnionOf({Intersect(A, m) : m \in B.members})
  ELSE IF A = B THEN A
  ELSE IF A.kind = "record" /\ B.kind = "record"
    THEN LET both == FieldNames(A) \cap FieldNames(B)
             all == FieldNames(A) \cup FieldNames(B)
         IN IF \E n \in both : Disjoint(A.fields[n].d, B.fields[n].d)
              THEN NeverT
              ELSE Rec([n \in all |->
                     IF n \in both
                       THEN Field(Intersect(A.fields[n].d, B.fields[n].d),
                                  A.fields[n].opt /\ B.fields[n].opt,
                                  A.fields[n].ro /\ B.fields[n].ro)
                     ELSE IF n \in FieldNames(A) THEN A.fields[n]
                     ELSE B.fields[n]])
  ELSE IF A.kind = "inter"
    THEN IF B.kind = "record"
           THEN LET o == Intersect(A.obj, B)
                IN IF o.kind = "never" THEN NeverT
                   ELSE [kind |-> "inter", base |-> A.base, obj |-> o]
           ELSE LET b == Intersect(A.base, B)
                IN IF b.kind = "never" THEN NeverT
                   ELSE [kind |-> "inter", base |-> b, obj |-> A.obj]
  ELSE IF B.kind = "inter" THEN Intersect(B, A)
  ELSE IF B.kind = "record"
    THEN IF A.kind = "prim" /\ A.name \in {"undefined", "null"} THEN NeverT
         ELSE [kind |-> "inter", base |-> A, obj |-> B]
  ELSE IF A.kind = "record" THEN Intersect(B, A)
  ELSE IF A.kind = "lit" /\ B.kind = "prim" /\ B.name = A.base THEN A
  ELSE IF B.kind = "lit" /\ A.kind = "prim" /\ A.name = B.base THEN B
  ELSE NeverT

\* The lib alias Pick<T, K> = { [P in K]: T[P] }, K extends keyof T.
Pick(T, K) == MappedHomomorphic(T, [P \in KeyNames(K) |-> IndexAccess(T, P)])

\* The lib alias Omit<T, K> = Pick<T, Exclude<keyof T, K>>.
Omit(T, K) == Pick(T, Exclude(KeyOf(T), K))

(***************************************************************************)
(* Shape transforms                                                        *)
(***************************************************************************)
\* A pick written without the `K extends keyof T` link: modifiers are dropped.
StrictPick_plain(T, K) == MappedPlain([P \in KeyNames(K) |-> IndexAccess(T, P)])

StrictPick(T, K) ==
  MappedHomomorphic(T, [P \in KeyNames(K) |-> IndexAccess(T, P)])

\* An omit that forgets to exclude K.
StrictOmit_keep(T, K) == Pick(T, KeyOf(T))

StrictOmit(T, K) == Pick(T, Exclude(KeyOf(T), K))

\* A left-biased merge.
Merge_left(A, B) == Intersect(A, Omit(B, KeyOf(A)))

Merge(A, B) == Intersect(Omit(A, KeyOf(B)), B)

(***************************************************************************)
(* The evaluation steps.  An alias is applied as Alias<cur, aux>: `cur` is  *)
(* the descriptor under transformation and `aux` the second type argument  *)
(* (a key union, a dot-path, a second Record, ...), fixed when the         *)
(* evaluation starts.  `last` and `prev` record the two most recent        *)
(* applications (alias, argument, input).                                  *)
(***************************************************************************)
NoStep == [op |-> "none", arg |-> NeverT, from |-> NeverT]

Step(op, arg, result) ==
  /\ cur' = result
  /\ last' = [op |-> op, arg |-> arg, from |-> cur]
  /\ prev' = last
  /\ UNCHANGED aux

Na == <<"a">>

Nb == <<"b">>

Nc == <<"c">>

\* A key type: the union of the string literals of a set of names.
Keys(S) == UnionOf({LitS(n) : n \in S})

\* All Records whose field set is a subset of DOMAIN choices and whose field n,
\* when present, is one of choices[n].
RecordsWith(choices) ==
  LET any == UNION {choices[n] : n \in DOMAIN choices}
  IN UNION {{Rec(f) : f \in {g \in [S -> any] : \A n \in S : g[n] \in choices[n]}} :
              S \in SUBSET DOMAIN choices}

\* All Records over the names ns whose field n, when present, has descriptor
\* d[n] and one of the (optional, readonly) flag pairs fl.
Flagged(ns, d, fl) ==
  RecordsWith([n \in ns |-> {Field(d[n], f[1], f[2]) : f \in fl}])

AllFlags == BOOLEAN \X BOOLEAN

ShapeNames == {Na, Nb, Nc}

ShapeLeft == Flagged({Na, Nb}, (Na :> String) @@ (Nb :> Number), AllFlags)

ShapeRight == Flagged({Nb, Nc}, (Nb :> String) @@ (Nc :> Number), AllFlags)

ShapeKeys == {Keys(S) : S \in SUBSET ShapeNames}

InitShape ==
  /\ cur \in ShapeLeft
  /\ aux \in ShapeRight \cup ShapeKeys
  /\ last = NoStep
  /\ prev = NoStep

\* StrictPick<cur, aux>; the constraint `K extends keyof T` rejects other aux.
DoStrictPick ==
  /\ cur.kind = "record"
  /\ Extends(aux, KeyOf(cur))
  /\ Step("StrictPick", aux, StrictPick(cur, aux))

\* StrictOmit<cur, aux>, under the same constraint.
DoStrictOmit ==
  /\ cur.kind = "record"
  /\ Extends(aux, KeyOf(cur))
  /\ Step("StrictOmit", aux, StrictOmit(cur, aux))

\* Merge<cur, aux> of two Records.
DoMerge ==
  /\ cur.kind = "record"
  /\ aux.kind = "record"
  /\ Step("Merge", aux, Merge(cur, aux))

NextShape == DoStrictPick \/ DoStrictOmit \/ DoMerge

SpecShape == InitShape /\ [][NextShape]_vars

\* C1: after StrictPick<R, K> with K a subset of the fields of R, the result has
\* exactly the fields K, each with the (descriptor, optional, readonly) triple
\* it has in R.
C1_PickKeepsExactlyK ==
  last.op = "StrictPick" =>
    /\ FieldNames(cur) = KeyNames(last.arg)
    /\ \A n \in KeyNames(last.arg) : cur.fields[n] = last.from.fields[n]

C1_Witness ==
  /\ last.op = "StrictPick"
  /\ FieldNames(cur) # FieldNames(last.from)
  /\ \E n \in FieldNames(cur) : cur.fields[n].opt /\ cur.fields[n].ro

\* C2: StrictOmit<R, K> and StrictPick<R, fields(R) \ K> have the same fields
\* with the same triples.
C2_OmitIsPickOfRest ==
  last.op = "StrictOmit" =>
    LET rest == FieldNames(last.from) \ KeyNames(last.arg)
        picked == StrictPick(last.from, Keys(rest))
    IN /\ FieldNames(cur) = FieldNames(picked)
       /\ \A n \in FieldNames(cur) : cur.fields[n] = picked.fields[n]

C2_Witness ==
  /\ last.op = "StrictOmit"
  /\ KeyNames(last.arg) # {}
  /\ \E n \in FieldNames(cur) : cur.fields[n].opt /\ cur.fields[n].ro

\* C3: Merge<A, B> has the fields of A and of B; a field of B (in A or not)
\* carries B's triple, a field only in A carries A's triple.
C3_MergeRightBiased ==
  last.op = "Merge" =>
    /\ FieldNames(cur) = FieldNames(last.from) \cup FieldNames(last.arg)
    /\ \A n \in FieldNames(cur) :
         cur.fields[n] = IF n \in FieldNames(last.arg)
                           THEN last.arg.fields[n]
                           ELSE last.from.fields[n]

C3_Witness ==
  /\ last.op = "Merge"
  /\ Na \in FieldNames(last.from) /\ Nb \in FieldNames(last.from)
  /\ Nb \in FieldNames(last.arg) /\ Nc \in FieldNames(last.arg)
  /\ last.from.fields[Nb] # last.arg.fields[Nb]
  /\ cur.fields[Nb] = last.arg.fields[Nb]

(***************************************************************************)
(* Deep transforms                                                         *)
(***************************************************************************)
\* The template-literal pattern `${infer First}.${infer Rest}`: a string
\* matches when it has a ".", First is what precedes the first "." and Rest
\* what follows it.
HasDot(p) == \E i \in 1..Len(p) : p[i] = "."

FirstDot(p) == CHOOSE i \in 1..Len(p) : p[i] = "." /\ \A j \in 1..(i - 1) : p[j] # "."

InferFirst(p) == SubSeq(p, 1, FirstDot(p) - 1)

InferRest(p) == SubSeq(p, FirstDot(p) + 1, Len(p))

RECURSIVE DeepPick_sameLevel(_, _)
\* A deep pick that recurses into T instead of T[First].
DeepPick_sameLevel(T, K) ==
  UnionOf({
    IF k.kind = "lit" /\ HasDot(k.val)
      THEN IF Extends(LitS(InferFirst(k.val)), KeyOf(T))
             THEN MappedPlain([P \in {InferFirst(k.val)} |->
                    DeepPick_sameLevel(T, LitS(InferRest(k.val)))])
             ELSE EmptyRec
      ELSE IF Extends(k, KeyOf(T))
             THEN MappedPlain([P \in KeyNames(k) |-> IndexAccess(T, P)])
             ELSE EmptyRec
    : k \in Members(K)})

RECURSIVE DeepPick(_, _)
\* DeepPick<T, K>, distributive over K.
DeepPick(T, K) ==
  UnionOf({
    IF k.kind = "lit" /\ HasDot(k.val)
      THEN IF Extends(LitS(InferFirst(k.val)), KeyOf(T))
             THEN MappedPlain([P \in {InferFirst(k.val)} |->
                    DeepPick(IndexAccess(T, InferFirst(k.val)), LitS(InferRest(k.val)))])
             ELSE EmptyRec
      ELSE IF Extends(k, KeyOf(T))
             THEN MappedPlain([P \in KeyNames(k) |-> IndexAccess(T, P)])
             ELSE EmptyRec
    : k \in Members(K)})

RECURSIVE DeepOmit(_, _)
\* DeepOmit<T, K>, distributive over K.
DeepOmit(T, K) ==
  UnionOf({
    IF k.kind = "lit" /\ HasDot(k.val)
      THEN IF Extends(LitS(InferFirst(k.val)), KeyOf(T))
             THEN Intersect(
                    MappedPlain([P \in KeyNames(Exclude(KeyOf(T), LitS(InferFirst(k.val))))
                                   |-> IndexAccess(T, P)]),
                    MappedPlain([P \in {InferFirst(k.val)} |->
                      DeepOmit(IndexAccess(T, InferFirst(k.val)), LitS(InferRest(k.val)))]))
             ELSE T
      ELSE Omit(T, Intersect(k, KeyOf(T)))
    : k \in Members(K)})

MaxPathLen == 3

PathChars == {"a", "b", "."}

\* Every string over PathChars of at most MaxPathLen characters.
ShortPaths == UNION {[1..n -> PathChars] : n \in 0..MaxPathLen}

\* The paths that end in the member `length`.
MemberPaths ==
  {LengthName} \cup {p \o <<".">> \o LengthName :
                       p \in {Na, Nb, Na \o <<".">> \o Na, Na \o <<".">> \o Nb}}

Paths == ShortPaths \cup MemberPaths

DeepInner == Flagged({Na, Nb}, (Na :> String) @@ (Nb :> String),
                     {<<FALSE, FALSE>>, <<TRUE, TRUE>>})

\* { a: Record or string, b: string }, every field with any modifiers or absent.
DeepOuter ==
  RecordsWith(
    (Na :> {Field(d, f[1], f[2]) : d \in DeepInner \cup {String}, f \in AllFlags})
    @@ (Nb :> {Field(String, f[1], f[2]) : f \in AllFlags}))

InitDeep ==
  /\ cur \in DeepOuter
  /\ aux \in {LitS(p) : p \in Paths}
  /\ last = NoStep
  /\ prev = NoStep

\* DeepPick<cur, aux>; K extends string.
DoDeepPick ==
  /\ Extends(aux, String)
  /\ Step("DeepPick", aux, DeepPick(cur, aux))

\* DeepOmit<cur, aux>; K extends string.
DoDeepOmit ==
  /\ Extends(aux, String)
  /\ Step("DeepOmit", aux, DeepOmit(cur, aux))

NextDeep == DoDeepPick \/ DoDeepOmit

SpecDeep == InitDeep /\ [][NextDeep]_vars

RECURSIVE Resolves(_, _)
\* The dot-path p names a field at every segment, starting from the Record R.
Resolves(R, p) ==
  /\ R.kind = "record"
  /\ IF HasDot(p)
       THEN /\ InferFirst(p) \in FieldNames(R)
            /\ Resolves(R.fields[InferFirst(p)].d, InferRest(p))
       ELSE p \in FieldNames(R)

\* C4: deepPick is idempotent: picking the same path again changes nothing,
\* whether or not the path resolves.
C4_DeepPickIdempotent ==
  prev.op = "DeepPick" /\ last.op = "DeepPick" => cur = last.from

C4_Witness ==
  /\ prev.op = "DeepPick" /\ last.op = "DeepPick"
  /\ Resolves(prev.from, aux.val) /\ HasDot(aux.val)
  /\ prev.from # cur
  /\ cur = last.from
RECURSIVE OnlyLeafRemoved(_, _, _)
\* Res is R without the field the dot-path p ends in: the leaf is gone, every
\* other field along the path has the triple it has in R, and the fields the
\* path goes through keep their flags.
OnlyLeafRemoved(R, Res, p) ==
  /\ Res.kind = "record"
  /\ IF HasDot(p)
       THEN /\ FieldNames(Res) = FieldNames(R)
            /\ \A n \in FieldNames(R) \ {InferFirst(p)} : Res.fields[n] = R.fields[n]
            /\ Res.fields[InferFirst(p)].opt = R.fields[InferFirst(p)].opt
            /\ Res.fields[InferFirst(p)].ro = R.fields[InferFirst(p)].ro
            /\ OnlyLeafRemoved(R.fields[InferFirst(p)].d,
                               Res.fields[InferFirst(p)].d, InferRest(p))
       ELSE /\ FieldNames(Res) = FieldNames(R) \ {p}
            /\ \A n \in FieldNames(Res) : Res.fields[n] = R.fields[n]

\* C10: deepOmit<R, p> for a path p that resolves in R removes exactly the leaf
\* p names; every other field at every level of the path is present with the
\* descriptor, optional flag and readonly flag it has in R.
C10_DeepOmitRemovesOnlyLeaf ==
  last.op = "DeepOmit" /\ Resolves(last.from, aux.val) =>
    OnlyLeafRemoved(last.from, cur, aux.val)

(***************************************************************************)
(* Sequence transforms                                                     *)
(***************************************************************************)
\* [...T, V]: a tuple literal type is writable whatever T is.
TuplePush(T, V) == Tup(Append(T.elems, V), FALSE)

\* A pop that drops the first element instead of the last.
TuplePop_first(T) ==
  IF Len(T.elems) >= 1 THEN Tup(Tail(T.elems), FALSE) ELSE Tup(<<>>, FALSE)

\* T extends readonly [...infer R, any] ? R : []; the inferred slice R is a
\* writable tuple.
TuplePop(T) ==
  IF Len(T.elems) >= 1
    THEN Tup(SubSeq(T.elems, 1, Len(T.elems) - 1), FALSE)
    ELSE Tup(<<>>, FALSE)

RECURSIVE TupleReverse_append(_, _)
\* A reverse that appends the head to the accumulator.
TupleReverse_append(T, R) ==
  IF Len(T.elems) >= 1
    THEN TupleReverse_append(Tup(Tail(T.elems), FALSE),
                             Tup(Append(R.elems, Head(T.elems)), FALSE))
    ELSE R

RECURSIVE TupleReverse(_, _)
\* T extends readonly [infer H, ...infer Tail] ? TupleReverse<Tail, [H, ...R]> : R
TupleReverse(T, R) ==
  IF Len(T.elems) >= 1
    THEN TupleReverse(Tup(Tail(T.elems), FALSE),
                      Tup(<<Head(T.elems)>> \o R.elems, FALSE))
    ELSE R

MaxArity == 3

Elems == {String, Number, LitS(<<"x">>)}

\* Every fixed sequence of at most MaxArity elements, writable or readonly.
Tuples == {Tup(e, r) : e \in UNION {[1..n -> Elems] : n \in 0..MaxArity}, r \in BOOLEAN}

InitSeq ==
  /\ cur \in Tuples
  /\ aux \in Elems
  /\ last = NoStep
  /\ prev = NoStep

\* TuplePush<cur, aux>; T extends readonly any[].
DoTuplePush ==
  /\ cur.kind = "tuple"
  /\ Len(cur.elems) <= MaxArity
  /\ Step("TuplePush", aux, TuplePush(cur, aux))

\* TuplePop<cur>.
DoTuplePop ==
  /\ cur.kind = "tuple"
  /\ Step("TuplePop", aux, TuplePop(cur))

\* TupleReverse<cur>, the accumulator R at its default [].
DoTupleReverse ==
  /\ cur.kind = "tuple"
  /\ Step("TupleReverse", aux, TupleReverse(cur, Tup(<<>>, FALSE)))

NextSeq == DoTuplePush \/ DoTuplePop \/ DoTupleReverse

SpecSeq == InitSeq /\ [][NextSeq]_vars

\* C5 as stated: pop(push(S, x)) equals S for every fixed sequence S.
C5_PopPushIsIdentity ==
  prev.op = "TuplePush" /\ last.op = "TuplePop" => cur = prev.from

\* C5 as amended: push appends x as the last element (arity + 1), pop removes
\* exactly that element (arity - 1), and pop(push(S, x)) is the writable
\* sequence with the elements of S: it equals S when S is writable.
C5_PopPushRestoresElements ==
  /\ last.op = "TuplePush" =>
       /\ Len(cur.elems) = Len(last.from.elems) + 1
       /\ cur.elems[Len(cur.elems)] = aux
       /\ SubSeq(cur.elems, 1, Len(last.from.elems)) = last.from.elems
  /\ prev.op = "TuplePush" /\ last.op = "TuplePop" =>
       /\ cur.elems = prev.from.elems
       /\ ~cur.ro
       /\ (~prev.from.ro => cur = prev.from)

C5_Witness ==
  /\ prev.op = "TuplePush" /\ last.op = "TuplePop"
  /\ Len(prev.from.elems) >= 2
  /\ prev.from.elems[1] # prev.from.elems[2]
  /\ ~prev.from.ro
  /\ cur = prev.from

\* C6 as stated: reverse(S) has the arity of S with element i equal to element
\* arity-1-i of S (counted from 0), and reverse(reverse(S)) equals S.
C6_ReverseInvolution ==
  /\ last.op = "TupleReverse" =>
       /\ Len(cur.elems) = Len(last.from.elems)
       /\ \A i \in 1..Len(cur.elems) :
            cur.elems[i] = last.from.elems[Len(cur.elems) + 1 - i]
  /\ prev.op = "TupleReverse" /\ last.op = "TupleReverse" => cur = prev.from

\* C6 as amended: the element order is reversed for every S, the result is
\* writable, and reverse(reverse(S)) is the writable sequence with the
\* elements of S: it equals S when S is writable.
C6_ReverseTwiceRestoresElements ==
  /\ last.op = "TupleReverse" =>
       /\ Len(cur.elems) = Len(last.from.elems)
       /\ \A i \in 1..Len(cur.elems) :
            cur.elems[i] = last.from.elems[Len(cur.elems) + 1 - i]
       /\ ~cur.ro
  /\ prev.op = "TupleReverse" /\ last.op = "TupleReverse" =>
       /\ cur.elems = prev.from.elems
       /\ (~prev.from.ro => cur = prev.from)

C6_Witness ==
  /\ prev.op = "TupleReverse" /\ last.op = "TupleReverse"
  /\ Len(prev.from.elems) = 3
  /\ prev.from.elems[1] # prev.from.elems[3]
  /\ last.from.elems[1] = prev.from.elems[3]
  /\ ~prev.from.ro
  /\ cur = prev.from

(***************************************************************************)
(* Signature transforms                                                    *)
(***************************************************************************)
RECURSIVE Curry(_)
\* T extends (...args: infer Args) => infer Return
\*   ? Args extends [infer First, ...infer Rest]
\*     ? (arg: First) => Curry<(...args: Rest) => Return>
\*     : () => Return
\*   : never
Curry(T) ==
  IF T.kind = "fn"
    THEN IF Len(T.params) >= 1
           THEN Fn(<<Head(T.params)>>, Curry(Fn(Tail(T.params), T.ret)))
           ELSE Fn(<<>>, T.ret)
    ELSE NeverT

RECURSIVE Links(_)
\* The number of Signatures nested through the return descriptor.
Links(T) == IF T.kind = "fn" THEN 1 + Links(T.ret) ELSE 0

MaxParams == 3

MaxLinks == 5

SigParams == {String, Number}

SigReturns == {String, Number, Boolean}

Signatures ==
  {Fn(p, r) : p \in UNION {[1..n -> SigParams] : n \in 0..MaxParams}, r \in SigReturns}

InitSig ==
  /\ cur \in Signatures
  /\ aux = NeverT
  /\ last = NoStep
  /\ prev = NoStep

\* Curry<cur>; T extends Fn.
DoCurry ==
  /\ cur.kind = "fn"
  /\ Links(cur) < MaxLinks
  /\ Step("Curry", aux, Curry(cur))

NextSig == DoCurry

SpecSig == InitSig /\ [][NextSig]_vars

RECURSIVE UnaryChain(_, _, _)
\* c is a chain of one unary Signature per parameter, in order, the last of
\* which returns ret.
UnaryChain(c, params, ret) ==
  IF Len(params) = 0
    THEN c = ret
    ELSE /\ c.kind = "fn"
         /\ c.params = <<Head(params)>>
         /\ UnaryChain(c.ret, Tail(params), ret)

\* C7: curry of an n-ary Signature is a chain of exactly n unary Signatures
\* whose full application yields the original return descriptor; a zero-arity
\* Signature becomes () -> ret.
C7_CurryIsUnaryChain ==
  last.op = "Curry" =>
    IF Len(last.from.params) = 0
      THEN cur = Fn(<<>>, last.from.ret)
      ELSE UnaryChain(cur, last.from.params, last.from.ret)

(***************************************************************************)
(* Alternative transforms                                                  *)
(***************************************************************************)
\* [T] extends [infer U] ? U extends any ? [U] extends [T] ? false : true
\*                                       : never : false
\* U is inferred as T; the conditional on the naked U is distributive.
IsUnion(T) ==
  UnionOf({IF Extends(Tup(<<u>>, FALSE), Tup(<<T>>, FALSE)) THEN False ELSE True :
             u \in Members(T)})

AltMembers == {LitS(<<"a">>), LitS(<<"b">>), LitS(<<"c">>), Number}

\* Every Alternative over AltMembers: one member or more.
Alternatives == {UnionOf(S) : S \in SUBSET AltMembers \ {{}}}

InitAlt ==
  /\ cur \in Alternatives
  /\ aux \in Alternatives
  /\ last = NoStep
  /\ prev = NoStep

\* IsUnion<cur>.
DoIsUnion == Step("IsUnion", aux, IsUnion(cur))

NextAlt == DoIsUnion

SpecAlt == InitAlt /\ [][NextAlt]_vars

\* C8: IsUnion<T> is true when T has two or more distinct members and false
\* when it has one.
C8_IsUnionCountsMembers ==
  last.op = "IsUnion" /\ last.from \in Alternatives =>
    cur = IF Cardinality(Members(last.from)) >= 2 THEN True ELSE False

(***************************************************************************)
(* Nominal tagging                                                         *)
(***************************************************************************)
BrandKey == <<"_", "_", "b", "r", "a", "n", "d">>

\* A brand whose tag field ignores the token.
Brand_untyped(T, Name) == Intersect(T, Rec(BrandKey :> Field(String, FALSE, TRUE)))

\* T & { readonly __brand: Name }
Brand(T, Name) == Intersect(T, Rec(BrandKey :> Field(Name, FALSE, TRUE)))

Tokens == {LitS(<<"A">>), LitS(<<"B">>)}

\* The base descriptors that get tagged.
Bases ==
  {String, Number, LitS(<<"x">>), Undefined, NeverT, AnyT, UnknownT, EmptyRec,
   Rec(Na :> Field(String, FALSE, FALSE)),
   Rec((Na :> Field(String, FALSE, FALSE)) @@ (Nb :> Field(Number, FALSE, FALSE)))}

\* In the tagging steps `cur` and `aux` are two declared types, each tagged
\* at most once.
InitBrand ==
  /\ cur \in Bases
  /\ aux \in Bases
  /\ last = NoStep
  /\ prev = NoStep

\* type X = Brand<cur, Name>; Name extends string.
DoBrand ==
  \E Name \in Tokens :
    /\ Extends(Name, String)
    /\ "Brand" \notin {last.op, prev.op}
    /\ Step("Brand", Name, Brand(cur, Name))

\* type Y = Brand<aux, Name>.
DoBrandOther ==
  \E Name \in Tokens :
    /\ Extends(Name, String)
    /\ "BrandOther" \notin {last.op, prev.op}
    /\ aux' = Brand(aux, Name)
    /\ last' = [op |-> "BrandOther", arg |-> Name, from |-> aux]
    /\ prev' = last
    /\ UNCHANGED cur

NextBrand == DoBrand \/ DoBrandOther

SpecBrand == InitBrand /\ [][NextBrand]_vars

\* Both declared types are tagged.
BothTagged == {last.op, prev.op} = {"Brand", "BrandOther"}

\* The step that tagged cur.
TagOfCur == IF last.op = "Brand" THEN last ELSE prev

\* The tagged form of the base T is an ordinary type: the intersection did not
\* collapse to never (never, undefined) or to any.
TagStands(T) == Brand(T, LitS(<<"A">>)).kind \notin {"never", "any"}

ExtendsObject(X) ==
  \/ X.kind = "any"
  \/ \A m \in Members(X) : m.kind \in {"record", "tuple", "fn", "inter"}

\* `${Prefix}.${K}`, or K when Prefix is "".
JoinPath(Prefix, K) == IF Prefix = <<>> THEN K ELSE Prefix \o <<".">> \o K

RECURSIVE DeepKeys(_, _)
\* DeepKeys<T, Prefix>: the mapped type over keyof T, read at [keyof T].
DeepKeys(T, Prefix) ==
  IF T.kind = "record"
    THEN UnionOf({
           UnionOf({LitS(JoinPath(Prefix, K)),
                    IF ExtendsObject(IndexAccess(T, K))
                      THEN DeepKeys(IndexAccess(T, K), JoinPath(Prefix, K))
                      ELSE NeverT})
           : K \in FieldNames(T)})
    ELSE NeverT

RECURSIVE DeepValue(_, _)
\* DeepValue<T, Path>, distributive over Path.
DeepValue(T, Path) ==
  UnionOf({
    IF p.kind = "lit" /\ HasDot(p.val)
      THEN IF Extends(LitS(InferFirst(p.val)), KeyOf(T))
             THEN DeepValue(IndexAccess(T, InferFirst(p.val)), LitS(InferRest(p.val)))
             ELSE NeverT
      ELSE IF p.kind = "lit" /\ Extends(p, KeyOf(T))
             THEN IndexAccess(T, p.val)
             ELSE NeverT
    : p \in Members(Path)})

InitPath ==
  /\ cur \in DeepOuter
  /\ aux \in {LitS(p) : p \in Paths}
  /\ last = NoStep
  /\ prev = NoStep

\* DeepKeys<cur>, Prefix left at its default "".
DoDeepKeys ==
  /\ cur.kind = "record"
  /\ Step("DeepKeys", LitS(<<>>), DeepKeys(cur, <<>>))

\* DeepValue<cur, aux>; Path extends string.
DoDeepValue ==
  /\ Extends(aux, String)
  /\ Step("DeepValue", aux, DeepValue(cur, aux))

NextPath == DoDeepKeys \/ DoDeepValue

SpecPath == InitPath /\ [][NextPath]_vars

RECURSIVE AllPaths(_)
\* Every dot-path that addresses a field of the Record R, at any depth.
AllPaths(R) ==
  IF R.kind = "record"
    THEN UNION {{n} \cup {n \o <<".">> \o q : q \in AllPaths(R.fields[n].d)}
                : n \in FieldNames(R)}
    ELSE {}

RECURSIVE StoredAt(_, _)
\* The descriptor stored in R at the resolving dot-path p.
StoredAt(R, p) ==
  IF HasDot(p) THEN StoredAt(R.fields[InferFirst(p)].d, InferRest(p))
  ELSE R.fields[p].d

\* C11: for every Record R with Primitive leaves, deepKeys(R) is exactly the
\* set of dot-paths addressing a field of R at any depth, intermediate
\* prefixes included; optional fields contribute like required ones.
C11_DeepKeysListsAllPaths ==
  last.op = "DeepKeys" /\ last.from.kind = "record" =>
    Members(cur) = {LitS(p) : p \in AllPaths(last.from)}

\* C12: for every Record R and dot-path p, deepValue(R, p) is the descriptor
\* stored at p when every segment names a field of the Record reached so far,
\* and never as soon as a segment does not exist.
C12_DeepValueResolvesOrNever ==
  last.op = "DeepValue" /\ last.from.kind = "record" =>
    IF Resolves(last.from, aux.val)
      THEN cur = StoredAt(last.from, aux.val)
      ELSE cur = NeverT

(***************************************************************************)
(* Union algebra: UnionDiff and UnionExclusive                             *)
(***************************************************************************)
\* UnionDiff<A, B> = A extends any ? (B extends A ? never : A) : never.
\* Both conditional types test a bare type parameter, so the outer one is
\* applied to every constituent a of A and the inner one to every constituent
\* b of B, and the results are united.
UnionDiff(A, B) ==
  UnionOf({UnionOf({IF Extends(b, a) THEN NeverT ELSE a : b \in Members(B)})
           : a \in Members(A)})

\* UnionExclusive<A, B> = UnionDiff<A, B> | UnionDiff<B, A>.
UnionExclusive(A, B) == UnionOf({UnionDiff(A, B), UnionDiff(B, A)})

\* UnionDiff<cur, aux>.
DoUnionDiff == Step("UnionDiff", aux, UnionDiff(cur, aux))

\* UnionExclusive<cur, aux>.
DoUnionExclusive == Step("UnionExclusive", aux, UnionExclusive(cur, aux))

NextSet == DoUnionDiff \/ DoUnionExclusive

SpecSet == InitAlt /\ [][NextSet]_vars

\* C13: UnionDiff(A, B) is exactly the set of members of A that are not
\* members of B, also when B has two or more members.
C13_UnionDiffIsSetDifference ==
  last.op = "UnionDiff" => Members(cur) = Members(last.from) \ Members(aux)

\* C14: UnionExclusive(A, B) is the symmetric difference of the member sets
\* of A and B, and UnionExclusive(A, B) = UnionExclusive(B, A).
C14_UnionExclusiveIsSymmetricDifference ==
  last.op = "UnionExclusive" =>
    /\ Members(cur) = (Members(last.from) \ Members(aux))
                        \cup (Members(aux) \ Members(last.from))
    /\ cur = UnionExclusive(aux, last.from)

(***************************************************************************)
(* Function chains: Pipe and Compose                                       *)
(***************************************************************************)
\* The default Fn = (...args: any[]) => any.
AnyFn == [kind |-> "fn", params |-> <<>>, rest |-> AnyT, ret |-> AnyT]

\* Parameters<F>[0]: the first element of the parameter tuple, undefined when
\* the tuple is empty.
Param0(F) == IF Len(F.params) >= 1 THEN F.params[1] ELSE Undefined

\* ReturnType<F>.
ReturnType(F) == F.ret

\* A pipe that stops at the second function of the list.
Pipe_second(T) ==
  IF T.kind = "tuple" /\ Len(T.elems) >= 1
    THEN IF Len(T.elems) = 1
           THEN Head(T.elems)
           ELSE Fn(<<Param0(Head(T.elems))>>, ReturnType(T.elems[2]))
    ELSE AnyFn

RECURSIVE Pipe(_)
\* T extends readonly [infer F, ...infer Rest]
\*   ? Rest extends [] ? F : (arg: Parameters<F>[0]) => ReturnType<Pipe<Rest>>
\*   : Fn
Pipe(T) ==
  IF T.kind = "tuple" /\ Len(T.elems) >= 1
    THEN IF Len(T.elems) = 1
           THEN Head(T.elems)
           ELSE Fn(<<Param0(Head(T.elems))>>,
                   ReturnType(Pipe(Tup(Tail(T.elems), FALSE))))
    ELSE AnyFn

RECURSIVE Compose(_)
\* T extends readonly [...infer Rest, infer F]
\*   ? Rest extends [] ? F : (arg: Parameters<Compose<Rest>>[0]) => ReturnType<F>
\*   : Fn
Compose(T) ==
  IF T.kind = "tuple" /\ Len(T.elems) >= 1
    THEN IF Len(T.elems) = 1
           THEN T.elems[1]
           ELSE Fn(<<Param0(Compose(Tup(SubSeq(T.elems, 1, Len(T.elems) - 1), FALSE)))>>,
                   ReturnType(T.elems[Len(T.elems)]))
    ELSE AnyFn

MaxList == 3

ChainFns ==
  {Fn(<<>>, String), Fn(<<String>>, Number), Fn(<<Number>>, String),
   Fn(<<Number>>, Boolean), Fn(<<Boolean>>, Number), Fn(<<String, Number>>, Boolean)}

\* The lists of at most MaxList functions, writable or readonly.
FnLists ==
  {Tup(e, r) : e \in UNION {[1..n -> ChainFns] : n \in 0..MaxList}, r \in BOOLEAN}

InitChain ==
  /\ cur \in FnLists
  /\ aux = NeverT
  /\ last = NoStep
  /\ prev = NoStep

\* Pipe<cur>; T extends readonly Fn[].
DoPipe ==
  /\ cur.kind = "tuple"
  /\ Step("Pipe", aux, Pipe(cur))

\* Compose<cur>; T extends readonly Fn[].
DoCompose ==
  /\ cur.kind = "tuple"
  /\ Step("Compose", aux, Compose(cur))

NextChain == DoPipe \/ DoCompose

SpecChain == InitChain /\ [][NextChain]_vars

\* The functions of the list the latest step was applied to.
Chain == last.from.elems

\* C15 as stated: for every non-empty list, pipe(list) has exactly one
\* parameter, the first parameter of the first function, and returns what the
\* last function returns, for every length including 1.
C15_PipeIsUnary ==
  last.op = "Pipe" /\ Len(Chain) >= 1 =>
    /\ Len(cur.params) = 1
    /\ Len(Chain[1].params) >= 1 => cur.params[1] = Chain[1].params[1]
    /\ cur.ret = Chain[Len(Chain)].ret

\* C15 as amended: pipe(list) returns what the last function returns; for a
\* list of two or more functions it has exactly one parameter, the first
\* parameter of the first function (undefined when that function takes none);
\* for a list of one function it is that function itself, with all of its
\* parameters.
C15_PipeChainsLeftToRight ==
  last.op = "Pipe" /\ Len(Chain) >= 1 =>
    /\ cur.ret = Chain[Len(Chain)].ret
    /\ Len(Chain) >= 2 => cur.params = <<Param0(Chain[1])>>
    /\ Len(Chain) = 1 => cur = Chain[1]

C15_Witness ==
  /\ last.op = "Pipe" /\ Len(Chain) = 3
  /\ Chain[1] = Fn(<<String, Number>>, Boolean)
  /\ Chain[2].ret # Chain[3].ret
  /\ cur = Fn(<<String>>, Chain[3].ret)

\* C16: for every list of at least two functions, compose(list) takes the
\* parameter of the last function and returns what the first function
\* returns: compose(list) = pipe(reverse(list)).
C16_ComposeMirrorsPipe ==
  last.op = "Compose" /\ Len(Chain) >= 2 =>
    /\ cur.params = <<Param0(Chain[Len(Chain)])>>
    /\ cur.ret = Chain[1].ret
    /\ cur = Pipe(TupleReverse(last.from, Tup(<<>>, FALSE)))

(***************************************************************************)
(* Guards: IsNever, IsAny, IsUnknown, IsLiteral, IsExact                   *)
(***************************************************************************)
BigInt == Prim("bigint")

Zero == Lit("number", <<"0">>)

One == Lit("number", <<"1">>)

\* [S] extends [T]: the one-element tuples switch distribution off.
WrappedExtends(S, T) == Extends(Tup(<<S>>, FALSE), Tup(<<T>>, FALSE))

\* [T] extends [never] ? true : false
IsNever(T) == IF WrappedExtends(T, NeverT) THEN True ELSE False

\* 0 extends 1 & T ? true : false
IsAny(T) == IF Extends(Zero, Intersect(One, T)) THEN True ELSE False

\* [T] extends [unknown] ? (IsAny<T> extends false ? true : false) : false
IsUnknown(T) ==
  IF WrappedExtends(T, UnknownT)
    THEN IF Extends(IsAny(T), False) THEN True ELSE False
    ELSE False

\* One constituent of IsLiteral<T>; on any a conditional type yields both of
\* its branches.
IsLiteralOne(m) ==
  IF m.kind = "any" THEN Boolean
  ELSE IF Extends(m, Boolean) THEN False
  ELSE IF Extends(m, UnionOf({BigInt, Number, String})) THEN True
  ELSE False

\* T extends boolean ? false : T extends bigint | number | string ? true : false,
\* distributive over T.
IsLiteral(T) == UnionOf({IsLiteralOne(m) : m \in Members(T)})

\* [A] extends [B] ? ([B] extends [A] ? true : false) : false
IsExact(A, B) ==
  IF WrappedExtends(A, B)
    THEN IF WrappedExtends(B, A) THEN True ELSE False
    ELSE False

\* The descriptors the guards are asked about.
GuardTypes ==
  {NeverT, AnyT, UnknownT, String, Number, BigInt, Boolean, True, Undefined,
   LitS(<<"x">>), One, UnionOf({LitS(<<"x">>), LitS(<<"y">>)}),
   UnionOf({String, Undefined}), EmptyRec,
   Rec(Na :> Field(String, FALSE, FALSE)),
   Rec(Na :> Field(String, FALSE, TRUE)),
   Rec((Na :> Field(String, FALSE, FALSE)) @@ (Nb :> Field(Number, TRUE, FALSE)))}

InitGuard ==
  /\ cur \in GuardTypes
  /\ aux \in GuardTypes
  /\ last = NoStep
  /\ prev = NoStep

DoIsNever == Step("IsNever", aux, IsNever(cur))

DoIsAny == Step("IsAny", aux, IsAny(cur))

DoIsUnknown == Step("IsUnknown", aux, IsUnknown(cur))

DoIsLiteral == Step("IsLiteral", aux, IsLiteral(cur))

\* IsExact<cur, aux>.
DoIsExact == Step("IsExact", aux, IsExact(cur, aux))

NextGuard == DoIsNever \/ DoIsAny \/ DoIsUnknown \/ DoIsLiteral \/ DoIsExact

SpecGuard == InitGuard /\ [][NextGuard]_vars

\* C17: isUnknown(T) is true only when T is unknown: false for any and for
\* every constrained descriptor (string, a literal, a Record, never).
C17_IsUnknownOnlyForUnknown ==
  last.op = "IsUnknown" =>
    cur = (IF last.from = UnknownT THEN True ELSE False)

\* C18: isLiteral(T) is true exactly when T is a literal string, number or
\* bigint, and false for the general string, number, bigint and for booleans.
C18_IsLiteralOnlyForLiterals ==
  last.op = "IsLiteral" /\ last.from.kind \in {"lit", "prim"} =>
    cur = (IF last.from.kind = "lit" /\ last.from.base # "boolean"
             THEN True ELSE False)

\* C19: isExact(A, B) is true if and only if A and B are the same descriptor,
\* any, unknown and never included.
C19_IsExactIffSame ==
  last.op = "IsExact" =>
    /\ cur = True => last.from = aux
    /\ last.from = aux => cur = True

(***************************************************************************)
(* Renaming                                                                *)
(***************************************************************************)
\* T[K] for a key type K.
IndexKeys(T, K) == UnionOf({IndexAccess(T, n) : n \in KeyNames(K)})

\* To extends keyof T ? T : Omit<T, From> & { [K in To]: T[From] },
\* distributive over To.
RenameKey(T, From, To) ==
  UnionOf({
    IF Extends(to, KeyOf(T))
      THEN T
      ELSE Intersect(Omit(T, From),
                     MappedPlain([K \in KeyNames(to) |-> IndexKeys(T, From)]))
    : to \in Members(To)})

RenameRecords == Flagged({Na, Nb}, (Na :> String) @@ (Nb :> Number), AllFlags)

\* The pairs of type arguments <From, To>.
RenamePairs ==
  {[from |-> LitS(f), to |-> LitS(t)] : f \in {Na, Nb}, t \in {Na, Nb, Nc}}

\* In the renaming steps `aux` holds the two key arguments.
InitRename ==
  /\ cur \in RenameRecords
  /\ aux \in RenamePairs
  /\ last = NoStep
  /\ prev = NoStep

\* RenameKey<cur, aux.from, aux.to>; From extends keyof T, To extends string.
DoRenameKey ==
  /\ Extends(aux.from, KeyOf(cur))
  /\ Extends(aux.to, String)
  /\ Step("RenameKey", aux, RenameKey(cur, aux.from, aux.to))

NextRename == DoRenameKey

SpecRename == InitRename /\ [][NextRename]_vars

\* C20: if `to` is already a field of R, rename(R, from, to) is R; otherwise
\* the fields are (fields(R) \ {from}) with `to` added, `to` carries exactly
\* the (descriptor, optional, readonly) triple `from` had, and every other
\* field is unchanged.
C20_RenameKeepsTriple ==
  last.op = "RenameKey" =>
    IF aux.to.val \in FieldNames(last.from)
      THEN cur = last.from
      ELSE /\ cur.kind = "record"
           /\ FieldNames(cur) = (FieldNames(last.from) \ {aux.from.val}) \cup {aux.to.val}
           /\ cur.fields[aux.to.val] = last.from.fields[aux.from.val]
           /\ \A n \in FieldNames(last.from) \ {aux.from.val} :
                cur.fields[n] = last.from.fields[n]

(***************************************************************************)
(* Renaming through a mapping: RenameKeys                                  *)
(***************************************************************************)
\* The order in which the fields of a Record are declared.
DeclOrder == <<Na, Nb, Nc>>

\* The member of the non-empty set S of names that is declared first.
FirstDeclared(S) ==
  DeclOrder[CHOOSE i \in 1..Len(DeclOrder) :
              DeclOrder[i] \in S /\ \A j \in 1..(i - 1) : DeclOrder[j] \notin S]

\* K extends keyof Map ? Map[K & string] : K, as the set of names it lists.
NewNames(Map, K) ==
  IF Extends(LitS(K), KeyOf(Map)) THEN KeyNames(IndexAccess(Map, K)) ELSE {K}

\* A renaming that leaves every field under its own name.
RenameKeys_keep(T, Map) == T

\* { [K in keyof T as K extends keyof Map ? Map[K & string] : K]: T[K] }.
\* The mapped type ranges over keyof T, so a field keeps the modifiers it has
\* in T; keys that are sent to one name make one field, which reads T[K] for
\* the union of these keys and has the modifiers of the first of them.
RenameKeys(T, Map) ==
  LET targets == UNION {NewNames(Map, K) : K \in FieldNames(T)}
      from(t) == {K \in FieldNames(T) : t \in NewNames(Map, K)}
      first(t) == T.fields[FirstDeclared(from(t))]
      read(t) == UnionOf({IndexAccess(T, K) : K \in from(t)})
  IN Rec([t \in targets |->
            Field(IF first(t).opt THEN StripUndefined(read(t)) ELSE read(t),
                  first(t).opt, first(t).ro)])

\* The mappings: some of the names a, b, c, each sent to one of a, b, c.
RenameMaps ==
  RecordsWith([n \in {Na, Nb, Nc} |->
                 {Field(LitS(t), FALSE, FALSE) : t \in {Na, Nb, Nc}}])

InitRemap ==
  /\ cur \in RenameRecords
  /\ aux \in RenameMaps
  /\ last = NoStep
  /\ prev = NoStep

\* RenameKeys<cur, aux>; Map extends Record<string, string>.
DoRenameKeys ==
  /\ cur.kind = "record"
  /\ \A n \in FieldNames(aux) : Extends(EffType(aux.fields[n]), String)
  /\ Step("RenameKeys", aux, RenameKeys(cur, aux))

NextRemap == DoRenameKeys

SpecRemap == InitRemap /\ [][NextRemap]_vars

\* The name the mapping aux sends the field f to.
Target(f) == IF f \in FieldNames(aux) THEN aux.fields[f].d.val ELSE f

\* No two fields of R are sent to the same name.
Injective(R) ==
  \A f, g \in FieldNames(R) : Target(f) = Target(g) => f = g

UncurryOne(t) ==
  IF t.kind = "fn" /\ Len(t.params) <= 1
    THEN LET A == IF Len(t.params) = 1 THEN t.params[1] ELSE UnknownT
         IN UnionOf({IF m.kind = "fn"
                       THEN Fn(<<A>> \o m.params, m.ret)
                       ELSE Fn(<<A>>, m)
                     : m \in Members(t.ret)})
    ELSE t

\* T extends (arg: infer A) => infer R
\*   ? R extends (...args: infer Args) => infer RReturn
\*     ? (arg: A, ...args: Args) => RReturn
\*     : (arg: A) => R
\*   : T, distributive over T.
Uncurry(T) == UnionOf({UncurryOne(t) : t \in Members(T)})

\* Uncurry<cur>.
DoUncurry == Step("Uncurry", aux, Uncurry(cur))

NextUncurry == DoCurry \/ DoUncurry

SpecUncurry == InitSig /\ [][NextUncurry]_vars

\* C22: uncurry merges only the outermost two links: a -> (rest...) -> r2
\* becomes (a, rest...) -> r2; when the outer return is not a Signature the
\* result is the unary Signature a -> r; a non-unary or non-Signature input is
\* returned unchanged.
C22_UncurryMergesOneLevel ==
  last.op = "Uncurry" =>
    IF last.from.kind = "fn" /\ Len(last.from.params) = 1 /\ last.from.ret.kind = "fn"
      THEN cur = Fn(last.from.params \o last.from.ret.params, last.from.ret.ret)
      ELSE cur = last.from

\* C26: for every Signature S = (a, b) -> r with exactly two parameters,
\* uncurry(curry(S)) equals S.
C26_UncurryInvertsCurry ==
  (prev.op = "Curry" /\ last.op = "Uncurry" /\ Len(prev.from.params) = 2
     /\ prev.from.ret.kind # "fn")
    => cur = prev.from

(***************************************************************************)
(* Sequence positions: head, tail, last, init, shift, includes, index      *)
(***************************************************************************)
\* A head that reads undefined off the empty tuple.
TupleHead_undefined(T) == IF Len(T.elems) >= 1 THEN T.elems[1] ELSE Undefined

\* T extends readonly [infer H, ...any[]] ? H : never
TupleHead(T) == IF Len(T.elems) >= 1 THEN T.elems[1] ELSE NeverT

\* T extends readonly [any, ...infer R] ? R : []
TupleTail(T) ==
  IF Len(T.elems) >= 1 THEN Tup(Tail(T.elems), FALSE) ELSE Tup(<<>>, FALSE)

\* T extends readonly [...any[], infer L] ? L : never
TupleLast(T) == IF Len(T.elems) >= 1 THEN T.elems[Len(T.elems)] ELSE NeverT

\* T extends readonly [...infer I, any] ? I : []
TupleInit(T) ==
  IF Len(T.elems) >= 1
    THEN Tup(SubSeq(T.elems, 1, Len(T.elems) - 1), FALSE)
    ELSE Tup(<<>>, FALSE)

\* T extends readonly [any, ...infer R] ? R : []
TupleShift(T) ==
  IF Len(T.elems) >= 1 THEN Tup(Tail(T.elems), FALSE) ELSE Tup(<<>>, FALSE)

\* T[number]: the union of the elements.
ElementUnion(T) == UnionOf({T.elems[i] : i \in 1..Len(T.elems)})

\* V extends T[number] ? true : false, distributive over V.
TupleIncludes(T, V) ==
  UnionOf({IF Extends(v, ElementUnion(T)) THEN True ELSE False : v \in Members(V)})

Digits == <<"0", "1", "2", "3", "4", "5", "6", "7", "8", "9">>

\* I["length"] for a tuple I of n elements: the number literal n.
LengthOf(n) == Lit("number", <<Digits[n + 1]>>)

MinusOne == Lit("number", <<"-", "1">>)

RECURSIVE TupleIndex(_, _, _)
\* T extends readonly [infer H, ...infer Tail]
\*   ? H extends V ? I["length"] : TupleIndex<Tail, V, [...I, 1]>
\*   : -1
\* I is the length of the counter tuple.  H is an inferred type parameter, so
\* `H extends V` distributes over the constituents of the element.
TupleIndex(T, V, I) ==
  IF Len(T.elems) >= 1
    THEN UnionOf({IF Extends(h, V)
                    THEN LengthOf(I)
                    ELSE TupleIndex(Tup(Tail(T.elems), FALSE), V, I + 1)
                  : h \in Members(Head(T.elems))})
    ELSE MinusOne

PosElems == Elems \cup {UnionOf({LitS(<<"x">>), LitS(<<"y">>)})}

PosTuples ==
  {Tup(e, r) : e \in UNION {[1..n -> PosElems] : n \in 0..MaxArity}, r \in BOOLEAN}

\* The descriptors looked for: single (non-union) ones.
PosArgs == {String, Number, LitS(<<"x">>), LitS(<<"y">>)}

InitPos ==
  /\ cur \in PosTuples
  /\ aux \in PosArgs
  /\ last = NoStep
  /\ prev = NoStep

DoTupleHead == cur.kind = "tuple" /\ Step("TupleHead", aux, TupleHead(cur))

DoTupleTail == cur.kind = "tuple" /\ Step("TupleTail", aux, TupleTail(cur))

DoTupleLast == cur.kind = "tuple" /\ Step("TupleLast", aux, TupleLast(cur))

DoTupleInit == cur.kind = "tuple" /\ Step("TupleInit", aux, TupleInit(cur))

DoTupleShift == cur.kind = "tuple" /\ Step("TupleShift", aux, TupleShift(cur))

\* TupleIncludes<cur, aux>.
DoTupleIncludes ==
  cur.kind = "tuple" /\ Step("TupleIncludes", aux, TupleIncludes(cur, aux))

\* TupleIndex<cur, aux>, the counter I at its default [].
DoTupleIndex ==
  cur.kind = "tuple" /\ Step("TupleIndex", aux, TupleIndex(cur, aux, 0))

NextPos ==
  \/ DoTupleHead
  \/ DoTupleTail
  \/ DoTupleLast
  \/ DoTupleInit
  \/ DoTuplePop
  \/ DoTupleShift
  \/ DoTupleIncludes
  \/ DoTupleIndex

SpecPos == InitPos /\ [][NextPos]_vars

\* The elements of the sequence the latest step was applied to.
Was == last.from.elems

\* C23: on the empty sequence head and last yield never and tail, init, pop
\* and shift yield the empty sequence; on a sequence of arity n >= 1 tail,
\* init, pop and shift yield a sequence of arity n - 1 and head and last yield
\* the first and the last element.
C23_PositionsOnEveryArity ==
  /\ last.op = "TupleHead" =>
       cur = (IF Len(Was) = 0 THEN NeverT ELSE Was[1])
  /\ last.op = "TupleLast" =>
       cur = (IF Len(Was) = 0 THEN NeverT ELSE Was[Len(Was)])
  /\ last.op \in {"TupleTail", "TupleShift"} =>
       /\ cur.kind = "tuple"
       /\ cur.elems = (IF Len(Was) = 0 THEN <<>> ELSE Tail(Was))
  /\ last.op \in {"TupleInit", "TuplePop"} =>
       /\ cur.kind = "tuple"
       /\ cur.elems = (IF Len(Was) = 0 THEN <<>> ELSE SubSeq(Was, 1, Len(Was) - 1))

C23_Witness ==
  /\ prev.op = "TupleTail" /\ Len(prev.from.elems) = 1
  /\ last.op = "TupleHead" /\ Was = <<>>
  /\ cur = NeverT

\* An element matches D when it is assignable to D.
Matching(D) == {i \in 1..Len(Was) : WrappedExtends(Was[i], D)}

\* C24: indexOf(S, D) is the smallest 0-based position whose element matches
\* D, and -1 exactly when no element of S matches D.
C24_IndexIsFirstMatch ==
  last.op = "TupleIndex" =>
    cur = (IF Matching(aux) = {}
             THEN MinusOne
             ELSE LengthOf((CHOOSE i \in Matching(aux) :
                              \A j \in Matching(aux) : i <= j) - 1))

\* C28: for every sequence S and single descriptor D, TupleIncludes(S, D) is
\* true if and only if TupleIndex(S, D) is not -1.
C28_IncludesAgreesWithIndex ==
  last.op = "TupleIncludes" =>
    (cur = True <=> TupleIndex(last.from, aux, 0) # MinusOne)

(***************************************************************************)
(* Further properties of the guards and of the path operations             *)
(***************************************************************************)
\* C27: for every descriptor T at most one of IsNever(T), IsAny(T) and
\* IsUnknown(T) is true.
C27_GuardsExclusive ==
  last.op \in {"IsNever", "IsAny", "IsUnknown"} =>
    Cardinality({g \in {"IsNever", "IsAny", "IsUnknown"} :
                   \/ g = "IsNever" /\ IsNever(last.from) = True
                   \/ g = "IsAny" /\ IsAny(last.from) = True
                   \/ g = "IsUnknown" /\ IsUnknown(last.from) = True}) <= 1

\* C29: for every Record R with Primitive leaves and every dot-path p,
\* DeepValue(R, p) is never if and only if p is not a member of DeepKeys(R).
C29_DeepKeysAgreeWithDeepValue ==
  last.op = "DeepValue" /\ last.from.kind = "record" =>
    (cur = NeverT <=> aux \notin Members(DeepKeys(last.from, <<>>)))

\* The first segment of the dot-path p.
FirstSegment(p) == IF HasDot(p) THEN InferFirst(p) ELSE p

RECURSIVE ChainEndsEmpty(_, _, _)
\* Res is the chain of one-field Records for the leading segments of p that
\* are keys of the descriptor reached from T, with the empty Record at the
\* first segment that is not.
ChainEndsEmpty(Res, T, p) ==
  IF ~Extends(LitS(FirstSegment(p)), KeyOf(T))
    THEN Res = EmptyRec
    ELSE /\ Res.kind = "record"
         /\ FieldNames(Res) = {FirstSegment(p)}
         /\ ~Res.fields[FirstSegment(p)].opt
         /\ ~Res.fields[FirstSegment(p)].ro
         /\ IF HasDot(p)
              THEN ChainEndsEmpty(Res.fields[FirstSegment(p)].d,
                                  IndexAccess(T, FirstSegment(p)), InferRest(p))
              ELSE Res.fields[p].d = IndexAccess(T, p)

C30_DeepOmitIdentityOnAbsent ==
  last.op = "DeepOmit" /\ last.from.kind = "record"
    /\ ~Resolves(last.from, aux.val) => cur = last.from

====
